---------------------------- MODULE Spec2Model ----------------------------
(***************************************************************************)
(* Paraxial ray tracing of the liquid-filled lens container               *)
(* (lab-03/simulation.py): refract, trace_system, build_systems,           *)
(* predict_focals, error_function and the fitting script.  The bounded     *)
(* minimiser the script calls is a library routine; it is modelled from   *)
(* its description in the specification (section 4.6).                    *)
(*                                                                         *)
(* Numbers.  A Python float is modelled as an exact rational extended      *)
(* with the IEEE special values the code branches on: signed zero, +inf,   *)
(* -inf and nan.  Rounding and overflow of finite values are not modelled. *)
(* A value also records whether it is a numpy float64 (np = TRUE) or a     *)
(* built-in float (np = FALSE): dividing a built-in float by zero raises   *)
(* ZeroDivisionError, dividing a float64 by zero yields inf or nan.  A     *)
(* raised exception is a value of kind "ZeroDivisionError" or "TypeError"  *)
(* that every later operation passes on unchanged.                         *)
(*                                                                         *)
(* Magnitudes are arbitrary-precision naturals: little-endian sequences of *)
(* limbs in base Base with no leading zero limb (<<>> is 0), because the   *)
(* exact focal lengths of the six-surface systems do not fit a machine     *)
(* integer.                                                                *)
(***************************************************************************)
EXTENDS Integers, Sequences, FiniteSets, TLC

VARIABLES
    g,           \* the module-level physical constants (lines 10-19)
    f_measured,  \* the module-level measured focal map (lines 22-26)
    call,        \* the function call in progress or last made
    ret,         \* what that call returned (or the exception it raised)
    memo,        \* <<index, map>>: the first predict_focals result per index
    pc,          \* position of the __main__ script (lines 118-130)
    fit,         \* the minimisation: the points evaluated so far, the best
                 \* of them with its cost, and the result
    out          \* what the script has printed

vars == <<g, f_measured, call, ret, memo, pc, fit, out>>

---------------------------------------------------------------------------
(* Evaluation order *)

\* Python evaluates an argument once, before the call.  LetN(e.., Body) is
\* Body applied to the values of e..: each e is evaluated exactly once, and
\* not once for every place Body mentions it.
Let1(e, Body(_)) == CHOOSE r \in {Body(a) : a \in {e}} : TRUE
Let2(e1, e2, Body(_, _)) ==
    CHOOSE r \in {Body(a, b) : a \in {e1}, b \in {e2}} : TRUE

---------------------------------------------------------------------------
(* Arbitrary-precision naturals *)

Base == 10 ^ 3

Min(a, b) == IF a < b THEN a ELSE b
Max(a, b) == IF a > b THEN a ELSE b

RECURSIVE MagOfInt(_)
MagOfInt(k) == IF k = 0 THEN <<>> ELSE <<k % Base>> \o MagOfInt(k \div Base)

Limb(a, i) == IF i <= Len(a) THEN a[i] ELSE 0

\* the highest index in lo..hi of a nonzero limb of a, or 0
RECURSIVE TopLimb(_, _, _)
TopLimb(a, lo, hi) ==
    IF lo > hi THEN 0
    ELSE IF a[hi] # 0 THEN hi
    ELSE IF lo = hi THEN 0
    ELSE Let1((lo + hi) \div 2, LAMBDA mid :
            Let1(TopLimb(a, mid + 1, hi), LAMBDA t :
                IF t # 0 THEN t ELSE TopLimb(a, lo, mid)))

\* a without its leading zero limbs
MagTrim(a0) == Let1(a0, LAMBDA a : SubSeq(a, 1, TopLimb(a, 1, Len(a))))

\* columns lo..hi of c with carry cin: their limbs and the carry out
RECURSIVE Carry(_, _, _, _)
Carry(c, lo, hi, cin) ==
    IF lo = hi
    THEN Let1(c[lo] + cin, LAMBDA v :
            [limbs |-> <<v % Base>>, cout |-> v \div Base])
    ELSE Let1((lo + hi) \div 2, LAMBDA mid :
            Let1(Carry(c, lo, mid, cin), LAMBDA L :
                Let1(Carry(c, mid + 1, hi, L.cout), LAMBDA H :
                    [limbs |-> L.limbs \o H.limbs, cout |-> H.cout])))

\* the magnitude whose columns (limbs not yet reduced below Base) are c
Carried(c0) ==
    Let1(c0, LAMBDA c :
        IF Len(c) = 0 THEN <<>>
        ELSE Let1(Carry(c, 1, Len(c), 0), LAMBDA r :
                MagTrim(r.limbs \o MagOfInt(r.cout))))

\* -1, 0 or 1 as limbs lo..hi of a are below, equal to or above those of b
RECURSIVE MagCmpIn(_, _, _, _)
MagCmpIn(a, b, lo, hi) ==
    IF lo > hi THEN 0
    ELSE IF a[hi] < b[hi] THEN -1
    ELSE IF a[hi] > b[hi] THEN 1
    ELSE IF lo = hi THEN 0
    ELSE Let1((lo + hi) \div 2, LAMBDA mid :
            Let1(MagCmpIn(a, b, mid + 1, hi - 1), LAMBDA t :
                IF t # 0 THEN t ELSE MagCmpIn(a, b, lo, mid)))

\* -1, 0 or 1 as a < b, a = b, a > b
MagCmp(a0, b0) ==
    Let2(a0, b0, LAMBDA a, b :
        IF Len(a) < Len(b) THEN -1
        ELSE IF Len(a) > Len(b) THEN 1
        ELSE MagCmpIn(a, b, 1, Len(a)))

MagAdd(a0, b0) ==
    Let2(a0, b0, LAMBDA a, b :
        Carried([i \in 1..Max(Len(a), Len(b)) |-> Limb(a, i) + Limb(b, i)]))

\* a - b for a >= b
MagSub(a0, b0) ==
    Let2(a0, b0, LAMBDA a, b :
        Carried([i \in 1..Len(a) |-> a[i] - Limb(b, i)]))

\* the sum of a[i] * b[k + 1 - i] over i in lo..hi
RECURSIVE ColSum(_, _, _, _, _)
ColSum(a, b, k, lo, hi) ==
    IF lo > hi THEN 0
    ELSE IF lo = hi THEN a[lo] * b[k + 1 - lo]
    ELSE Let1((lo + hi) \div 2, LAMBDA mid :
            ColSum(a, b, k, lo, mid) + ColSum(a, b, k, mid + 1, hi))

MagMul(a0, b0) ==
    Let2(a0, b0, LAMBDA a, b :
        IF a = <<>> \/ b = <<>> THEN <<>>
        ELSE Carried([k \in 1..(Len(a) + Len(b) - 1) |->
                ColSum(a, b, k, Max(1, k + 1 - Len(b)), Min(Len(a), k))]))

---------------------------------------------------------------------------
(* Python floats *)

\* sign * n / d with d > 0; n = <<>> is a signed zero
Num(sign, n, d, np) == [k |-> "num", sign |-> sign, n |-> n, d |-> d, np |-> np]

\* the same fraction with the powers of Base common to n and d cancelled
RECURSIVE Rat(_, _, _, _)
Rat(sign, n0, d0, np) ==
    Let2(n0, d0, LAMBDA n, d :
        IF n # <<>> /\ n[1] = 0 /\ d[1] = 0
        THEN Rat(sign, Tail(n), Tail(d), np)
        ELSE Num(sign, n, d, np))
Inf(sign, np)       == [k |-> "inf", sign |-> sign, n |-> <<1>>, d |-> <<>>, np |-> np]
NaN(np)             == [k |-> "nan", sign |-> 1, n |-> <<>>, d |-> <<>>, np |-> np]
Raised(e)           == [k |-> e, sign |-> 1, n |-> <<>>, d |-> <<>>, np |-> FALSE]
None                == [k |-> "None", sign |-> 1, n |-> <<>>, d |-> <<>>, np |-> FALSE]

ZeroDivisionError == Raised("ZeroDivisionError")
TypeError         == Raised("TypeError")

\* a built-in float (or int) literal p/q, q > 0
Lit(p, q) == Num(IF p < 0 THEN -1 ELSE 1, MagOfInt(IF p < 0 THEN -p ELSE p),
                 MagOfInt(q), FALSE)
\* the same number as a numpy float64
AsNp(v) == [v EXCEPT !.np = TRUE]

IsExc(v)    == Let1(v, LAMBDA a : /\ "k" \in DOMAIN a
                                  /\ a.k \in {"ZeroDivisionError", "TypeError"})
IsFloat(v)  == v.k \in {"num", "inf", "nan"}
IsZero(v)   == Let1(v, LAMBDA a : a.k = "num" /\ a.n = <<>>)
IsFinite(v) == v.k = "num"

\* math.isinf
isinf(v) == v.k = "inf"

\* the mathematical comparison of two finite values: -1, 0, 1
NumCmp(a, b) ==
    IF a.n = <<>> /\ b.n = <<>> THEN 0
    ELSE IF a.n = <<>> THEN -b.sign
    ELSE IF b.n = <<>> THEN a.sign
    ELSE IF a.sign # b.sign THEN a.sign
    ELSE a.sign * MagCmp(MagMul(a.n, b.d), MagMul(b.n, a.d))

\* Python's == on floats: nan equals nothing, +0.0 == -0.0
Eq(x, y) ==
    Let2(x, y, LAMBDA a, b :
        IF a.k = "nan" \/ b.k = "nan" THEN FALSE
        ELSE IF a.k = "inf" \/ b.k = "inf" THEN a.k = b.k /\ a.sign = b.sign
        ELSE NumCmp(a, b) = 0)

Neg(x) ==
    Let1(x, LAMBDA a :
        IF IsFloat(a) /\ a.k # "nan" THEN [a EXCEPT !.sign = -a.sign] ELSE a)

\* abs(); abs(None) raises TypeError
Abs(x) ==
    Let1(x, LAMBDA a :
        IF IsExc(a) THEN a
        ELSE IF a.k = "None" THEN TypeError
        ELSE IF a.k = "nan" THEN a
        ELSE [a EXCEPT !.sign = 1])

\* x * y
Mul(x, y) ==
    Let2(x, y, LAMBDA a, b :
        IF IsExc(a) THEN a ELSE IF IsExc(b) THEN b
        ELSE IF ~IsFloat(a) \/ ~IsFloat(b) THEN TypeError
        ELSE LET np == a.np \/ b.np
                 sg == a.sign * b.sign
             IN  IF a.k = "nan" \/ b.k = "nan" THEN NaN(np)
                 ELSE IF a.k = "inf" \/ b.k = "inf"
                      THEN IF IsZero(a) \/ IsZero(b) THEN NaN(np)
                           ELSE Inf(sg, np)
                 ELSE IF IsZero(a) \/ IsZero(b) THEN Num(sg, <<>>, <<1>>, np)
                 ELSE Rat(sg, MagMul(a.n, b.n), MagMul(a.d, b.d), np))

\* x / y: a zero divisor raises unless an operand is a numpy float64
Div(x, y) ==
    Let2(x, y, LAMBDA a, b :
        IF IsExc(a) THEN a ELSE IF IsExc(b) THEN b
        ELSE IF ~IsFloat(a) \/ ~IsFloat(b) THEN TypeError
        ELSE LET np == a.np \/ b.np
                 sg == a.sign * b.sign
             IN  IF IsZero(b) /\ ~np THEN ZeroDivisionError
                 ELSE IF a.k = "nan" \/ b.k = "nan" THEN NaN(np)
                 ELSE IF IsZero(b)
                      THEN IF IsZero(a) THEN NaN(np) ELSE Inf(sg, np)
                 ELSE IF a.k = "inf"
                      THEN IF b.k = "inf" THEN NaN(np) ELSE Inf(sg, np)
                 ELSE IF b.k = "inf" \/ IsZero(a) THEN Num(sg, <<>>, <<1>>, np)
                 ELSE Rat(sg, MagMul(a.n, b.d), MagMul(a.d, b.n), np))

\* the sum of two finite nonzero values
AddFinite(a, b, np) ==
    Let2(MagMul(a.n, b.d), MagMul(b.n, a.d), LAMBDA p, q :
        Let2(MagMul(a.d, b.d), MagCmp(p, q), LAMBDA d, c :
            IF a.sign = b.sign THEN Rat(a.sign, MagAdd(p, q), d, np)
            ELSE IF c = 0 THEN Num(1, <<>>, <<1>>, np)
            ELSE IF c = 1 THEN Rat(a.sign, MagSub(p, q), d, np)
            ELSE Rat(b.sign, MagSub(q, p), d, np)))

\* x + y
Add(x, y) ==
    Let2(x, y, LAMBDA a, b :
        IF IsExc(a) THEN a ELSE IF IsExc(b) THEN b
        ELSE IF ~IsFloat(a) \/ ~IsFloat(b) THEN TypeError
        ELSE LET np == a.np \/ b.np
             IN  IF a.k = "nan" \/ b.k = "nan" THEN NaN(np)
                 ELSE IF a.k = "inf"
                      THEN IF b.k = "inf" /\ b.sign # a.sign THEN NaN(np)
                           ELSE Inf(a.sign, np)
                 ELSE IF b.k = "inf" THEN Inf(b.sign, np)
                 ELSE IF IsZero(a) /\ IsZero(b)
                      THEN Num(IF a.sign = -1 /\ b.sign = -1 THEN -1 ELSE 1,
                               <<>>, <<1>>, np)
                 ELSE IF IsZero(a) THEN [b EXCEPT !.np = np]
                 ELSE IF IsZero(b) THEN [a EXCEPT !.np = np]
                 ELSE AddFinite(a, b, np))

\* x - y
Sub(x, y) == Add(x, Neg(y))

\* x ** 2
Sq(x) == Let1(x, LAMBDA a : Mul(a, a))

inf == Inf(1, FALSE)   \* np.inf is the built-in float('inf')
One == Lit(1, 1)

---------------------------------------------------------------------------
(* Paraxial tracing *)

\* refract with the general formula under the other sign convention
refractPlus(n1, n2, R, s) ==
    IF isinf(R)
    THEN IF Eq(s, inf) THEN inf
         ELSE Mul(Div(n2, n1), s)
    ELSE IF Eq(s, inf) THEN Div(Mul(n2, R), Sub(n2, n1))
    ELSE Div(One, Add(Div(Sub(n2, n1), Mul(n2, R)), Div(n1, Mul(n2, s))))

\* refract with the incidence index in the numerator for an object at infinity
refractN1(n1, n2, R, s) ==
    IF isinf(R)
    THEN IF Eq(s, inf) THEN inf
         ELSE Mul(Div(n2, n1), s)
    ELSE IF Eq(s, inf) THEN Div(Mul(n1, R), Sub(n2, n1))
    ELSE Div(One, Sub(Div(Sub(n2, n1), Mul(n2, R)), Div(n1, Mul(n2, s))))

refract(n1, n2, R, s) ==
    IF isinf(R)
    THEN IF Eq(s, inf) THEN inf
         ELSE Mul(Div(n2, n1), s)
    ELSE IF Eq(s, inf) THEN Div(Mul(n2, R), Sub(n2, n1))
    ELSE Div(One, Sub(Div(Sub(n2, n1), Mul(n2, R)), Div(n1, Mul(n2, s))))


\* a surface record, as the dict literals of lines 66-91
Surface(n1, n2, R, t) == [n1 |-> n1, n2 |-> n2, R |-> R, t |-> t]

\* the loop with the translation to the next vertex reversed (s' - t)
RECURSIVE TraceFromReversed(_, _, _)
TraceFromReversed(surfaces, i, s0) ==
    IF i > Len(surfaces) THEN None
    ELSE Let2(surfaces[i], s0, LAMBDA surf, s :
         Let1(refract(surf.n1, surf.n2, surf.R, s), LAMBDA s_prime :
             IF IsExc(s_prime) THEN s_prime
             ELSE IF i = Len(surfaces) THEN s_prime
             ELSE TraceFromReversed(surfaces, i + 1, Sub(s_prime, surf.t))))

\* the loop with the last-surface test one off (i == len(surfaces))
RECURSIVE TraceFromOffByOne(_, _, _)
TraceFromOffByOne(surfaces, i, s0) ==
    IF i > Len(surfaces) THEN None
    ELSE Let2(surfaces[i], s0, LAMBDA surf, s :
         Let1(refract(surf.n1, surf.n2, surf.R, s), LAMBDA s_prime :
             IF IsExc(s_prime) THEN s_prime
             ELSE IF i = Len(surfaces) + 1 THEN s_prime
             ELSE TraceFromOffByOne(surfaces, i + 1, Sub(surf.t, s_prime))))

\* the loop body of trace_system from (1-based) surface i on, with object
\* distance s; an exception raised by refract leaves the loop at once
RECURSIVE TraceFrom(_, _, _)
TraceFrom(surfaces, i, s0) ==
    IF i > Len(surfaces) THEN None  \* should not reach
    ELSE Let2(surfaces[i], s0, LAMBDA surf, s :
         Let1(refract(surf.n1, surf.n2, surf.R, s), LAMBDA s_prime :
             IF IsExc(s_prime) THEN s_prime
             \* For last surface: focal length = s' in final medium
             ELSE IF i = Len(surfaces) THEN s_prime
             \* Otherwise translate to next vertex
             ELSE TraceFrom(surfaces, i + 1, Sub(surf.t, s_prime))))

trace_system(surfaces0) ==
    Let1(surfaces0, LAMBDA surfaces : TraceFrom(surfaces, 1, inf))

---------------------------------------------------------------------------
(* Optical systems *)

\* insertion order of the dicts systems, focals and f_measured
Names == <<"empty", "one_filled", "both_filled">>
NameSet == {Names[i] : i \in 1..Len(Names)}

Zero == Lit(0, 1)

\* the empty container with a wall thickness after its last surface
empty_systemThick ==
    << Surface(g.n_air, g.n_plexi, g.R_outer, g.wall_thickness),
       Surface(g.n_plexi, g.n_air, g.R_inner, g.cavity_thickness),
       Surface(g.n_air, g.n_plexi, inf, g.partition_thickness),
       Surface(g.n_plexi, g.n_air, inf, g.cavity_thickness),
       Surface(g.n_air, g.n_plexi, Neg(g.R_inner), g.wall_thickness),
       Surface(g.n_plexi, g.n_air, Neg(g.R_outer), g.wall_thickness) >>

\* Empty container (both cavities air)
empty_system ==
    << Surface(g.n_air, g.n_plexi, g.R_outer, g.wall_thickness),
       Surface(g.n_plexi, g.n_air, g.R_inner, g.cavity_thickness),
       Surface(g.n_air, g.n_plexi, inf, g.partition_thickness),
       Surface(g.n_plexi, g.n_air, inf, g.cavity_thickness),
       Surface(g.n_air, g.n_plexi, Neg(g.R_inner), g.wall_thickness),
       Surface(g.n_plexi, g.n_air, Neg(g.R_outer), Zero) >>

\* one compartment filled, but the first cavity instead of the second
one_filled_systemFirst(n_water) ==
    << Surface(g.n_air, g.n_plexi, g.R_outer, g.wall_thickness),
       Surface(g.n_plexi, n_water, g.R_inner, g.cavity_thickness),
       Surface(n_water, g.n_plexi, inf, g.partition_thickness),
       Surface(g.n_plexi, g.n_air, inf, g.cavity_thickness),
       Surface(g.n_air, g.n_plexi, Neg(g.R_inner), g.wall_thickness),
       Surface(g.n_plexi, g.n_air, Neg(g.R_outer), Zero) >>

\* One compartment filled (plano-convex)
one_filled_system(n_water) ==
    << Surface(g.n_air, g.n_plexi, g.R_outer, g.wall_thickness),
       Surface(g.n_plexi, g.n_air, g.R_inner, g.cavity_thickness),
       Surface(g.n_air, g.n_plexi, inf, g.partition_thickness),
       Surface(g.n_plexi, n_water, inf, g.cavity_thickness),
       Surface(n_water, g.n_plexi, Neg(g.R_inner), g.wall_thickness),
       Surface(g.n_plexi, g.n_air, Neg(g.R_outer), Zero) >>

\* Both compartments filled (biconvex)
both_filled_system(n_water) ==
    << Surface(g.n_air, g.n_plexi, g.R_outer, g.wall_thickness),
       Surface(g.n_plexi, n_water, g.R_inner, g.cavity_thickness),
       Surface(n_water, g.n_plexi, inf, g.partition_thickness),
       Surface(g.n_plexi, n_water, inf, g.cavity_thickness),
       Surface(n_water, g.n_plexi, Neg(g.R_inner), g.wall_thickness),
       Surface(g.n_plexi, g.n_air, Neg(g.R_outer), Zero) >>

build_systems(n_water) ==
    [name \in NameSet |->
        CASE name = "empty"       -> empty_system
          [] name = "one_filled"  -> one_filled_system(n_water)
          [] name = "both_filled" -> both_filled_system(n_water)]

---------------------------------------------------------------------------
(* Evaluation and fitting *)

\* the first exception among the values of a map, in insertion order
RECURSIVE FirstExc(_, _)
FirstExc(m, i) ==
    IF i > Len(Names) THEN None
    ELSE IF IsExc(m[Names[i]]) THEN m[Names[i]]
    ELSE FirstExc(m, i + 1)

\* predict_focals reading the module-level n_water its parameter shadows
predict_focalsGlobal(n_water) ==
    Let1(build_systems(g.n_water), LAMBDA systems :
    Let1([name \in DOMAIN systems |-> trace_system(systems[name])],
         LAMBDA focals :
             IF FirstExc(focals, 1) # None THEN FirstExc(focals, 1)
             ELSE focals))

predict_focals(n_water) ==
    Let1(build_systems(n_water), LAMBDA systems :
    Let1([name \in DOMAIN systems |-> trace_system(systems[name])],
         LAMBDA focals :
             IF FirstExc(focals, 1) # None THEN FirstExc(focals, 1)
             ELSE focals))

\* the loop of error_function without abs() around the model value
RECURSIVE ErrFromSigned(_, _, _)
ErrFromSigned(focals, i, err0) ==
    Let1(err0, LAMBDA err :
        IF i > Len(Names) \/ IsExc(err) THEN err
        ELSE LET key     == Names[i]
                 f_meas  == f_measured[key]
                 f_model == focals[key]
             IN
                 ErrFromSigned(focals, i + 1,
                     Add(err, Sq(Div(Sub(f_model, Abs(f_meas)), f_meas)))))

\* the loop of error_function from the i-th entry of f_measured on
RECURSIVE ErrFrom(_, _, _)
ErrFrom(focals, i, err0) ==
    Let1(err0, LAMBDA err :
        IF i > Len(Names) \/ IsExc(err) THEN err
        ELSE LET key     == Names[i]
                 f_meas  == f_measured[key]
                 f_model == focals[key]
             IN
             \* Use relative error weighting
                 ErrFrom(focals, i + 1,
                     Add(err, Sq(Div(Sub(Abs(f_model), Abs(f_meas)), f_meas)))))

error_function(n_water) ==
    Let1(predict_focals(n_water), LAMBDA focals :
        IF IsExc(focals) THEN focals ELSE ErrFrom(focals, 1, Zero))

---------------------------------------------------------------------------
(* Initial state: the module-level assignments of lines 10-26 *)

Globals ==
    [ n_air               |-> Lit(1, 1),
      n_plexi             |-> Lit(1491, 1000),
      n_water             |-> Lit(1333, 1000),
      R_outer             |-> Lit(30, 1),
      R_inner             |-> Lit(27, 1),
      wall_thickness      |-> Lit(3, 1),
      partition_thickness |-> Lit(2, 1),
      cavity_thickness    |-> Lit(26, 1) ]

Measured ==
    [name \in NameSet |->
        CASE name = "empty"       -> Lit(-500, 1)
          [] name = "one_filled"  -> Lit(132, 1)
          [] name = "both_filled" -> Lit(55, 1)]

NoCall == [fn |-> "none", args |-> <<>>]

Init ==
    /\ g = Globals
    /\ f_measured = Measured
    /\ call = NoCall
    /\ ret = None
    /\ memo = {}
    /\ pc = "start"
    /\ fit = [evals |-> <<>>, best |-> <<None, None>>, x |-> None]
    /\ out = <<>>

---------------------------------------------------------------------------
(* Calls of refract on bounded inputs *)

MaxIndex == 2   \* refractive indices 1, ..., MaxIndex and the halves between
MaxRadius == 2  \* radii of curvature -MaxRadius..MaxRadius without 0
MaxDist == 2    \* object distances -MaxDist..MaxDist

BothTypes(S) == S \cup {AsNp(v) : v \in S}

IndexValues  == BothTypes({Lit(i, 1) : i \in 1..MaxIndex} \cup
                          {Lit(2 * i + 1, 2) : i \in 1..(MaxIndex - 1)})
RadiusValues == {inf} \cup {Lit(r, 1) : r \in (-MaxRadius..MaxRadius) \ {0}}
DistValues   == BothTypes({inf, Neg(inf)} \cup
                          {Lit(k, 1) : k \in -MaxDist..MaxDist})

\* one call from the initial state
CallRefract(n1, n2, R, s) ==
    /\ call = NoCall
    /\ call' = [fn |-> "refract", args |-> <<n1, n2, R, s>>]
    /\ ret' = refract(n1, n2, R, s)
    /\ UNCHANGED <<g, f_measured, memo, pc, fit, out>>

NextRefract ==
    \E n1 \in IndexValues, n2 \in IndexValues,
       R \in RadiusValues, s \in DistValues : CallRefract(n1, n2, R, s)

SpecRefract == Init /\ [][NextRefract]_vars

---------------------------------------------------------------------------
(* Calls of trace_system on bounded sequences of surfaces *)

MaxSurfaces == 3

Half(p) == Lit(p, 2)

SurfaceValues ==
    { Surface(Lit(1, 1), Half(3), Lit(2, 1), Lit(1, 1)),     \* curved, entry
      Surface(Half(3), Lit(1, 1), Lit(-2, 1), Lit(3, 1)),    \* curved, exit
      Surface(Lit(1, 1), Half(3), inf, Lit(2, 1)),           \* flat
      Surface(Lit(1, 1), Lit(2, 1), Lit(1, 1), Zero),        \* curved, t = 0
      Surface(AsNp(Half(3)), AsNp(Half(3)), Lit(-1, 1), Lit(1, 1)),
      Surface(Lit(2, 1), Lit(1, 1), Lit(-1, 1), Lit(5, 1)) }

RECURSIVE SeqsUpTo(_, _)
SeqsUpTo(S, n) ==
    IF n = 0 THEN {<<>>}
    ELSE LET shorter == SeqsUpTo(S, n - 1)
         IN  shorter \cup {Append(q, x) : q \in shorter, x \in S}

\* one call from the initial state
CallTrace(surfaces) ==
    /\ call = NoCall
    /\ call' = [fn |-> "trace_system", args |-> <<surfaces>>]
    /\ ret' = trace_system(surfaces)
    /\ UNCHANGED <<g, f_measured, memo, pc, fit, out>>

NextTrace ==
    \E surfaces \in SeqsUpTo(SurfaceValues, MaxSurfaces) : CallTrace(surfaces)

SpecTrace == Init /\ [][NextTrace]_vars

---------------------------------------------------------------------------
(* Calls of build_systems, predict_focals and error_function *)

TrialSteps == 6  \* the search interval [1.0, 1.6] is cut into TrialSteps steps

\* the initial guess, the index of the container material, and a grid over
\* the search interval; each as a built-in float and as the float64 the
\* minimiser passes
TrialIndices ==
    BothTypes({g.n_water, g.n_plexi} \cup
              {Lit(1000 + (600 * k) \div TrialSteps, 1000) : k \in 0..TrialSteps})

\* the indices predict_focals is called with repeatedly
RepeatedIndices ==
    { Lit(1000, 1000), g.n_water, AsNp(g.n_water), AsNp(g.n_plexi),
      AsNp(Lit(1600, 1000)) }

\* one call from the initial state
CallBuild(n) ==
    /\ call = NoCall
    /\ call' = [fn |-> "build_systems", args |-> <<n>>]
    /\ ret' = build_systems(n)
    /\ UNCHANGED <<g, f_measured, memo, pc, fit, out>>

\* one call from the initial state
CallError(n) ==
    /\ call = NoCall
    /\ call' = [fn |-> "error_function", args |-> <<n>>]
    /\ ret' = error_function(n)
    /\ UNCHANGED <<g, f_measured, memo, pc, fit, out>>

\* any number of calls in any order; memo keeps the first map returned for
\* each fill index
CallPredict(n) ==
    /\ call.fn \in {"none", "predict_focals"}
    /\ call' = [fn |-> "predict_focals", args |-> <<n>>]
    /\ ret' = predict_focals(n)
    /\ memo' = IF \E p \in memo : p[1] = n THEN memo
               ELSE memo \cup {<<n, ret'>>}
    /\ UNCHANGED <<g, f_measured, pc, fit, out>>

NextSystems ==
    \/ \E n \in TrialIndices : CallBuild(n)
    \/ \E n \in TrialIndices : CallError(n)
    \/ \E n \in RepeatedIndices : CallPredict(n)

SpecSystems == Init /\ [][NextSystems]_vars

---------------------------------------------------------------------------
(* The script (lines 118-130) *)

MaxIter == 3  \* the minimiser's maximum number of evaluations

\* bounds=(1.0, 1.6)
Bounds == <<Lit(10, 10), Lit(16, 10)>>

\* Python's < on floats
Lt(x, y) ==
    Let2(x, y, LAMBDA a, b :
        IF a.k = "nan" \/ b.k = "nan" THEN FALSE
        ELSE IF a.k = "inf" THEN a.sign = -1 /\ ~(b.k = "inf" /\ b.sign = -1)
        ELSE IF b.k = "inf" THEN b.sign = 1
        ELSE NumCmp(a, b) = -1)

InInterval(x0) ==
    Let1(x0, LAMBDA x : IsFinite(x) /\ ~Lt(x, Bounds[1]) /\ ~Lt(Bounds[2], x))

\* the points the minimiser may try: those of these that lie in the interval
SearchPoints ==
    { x \in { AsNp(Bounds[1]), AsNp(g.n_plexi), Bounds[2], Lit(17, 10) } :
        InInterval(x) }

\* a focal map the format {f:8.2f} accepts
Printable(focals0) ==
    Let1(focals0, LAMBDA focals :
        ~IsExc(focals) /\ \A name \in DOMAIN focals : IsFloat(focals[name]))

\* the final report printing the focal lengths of the initial guess
MainReportStale ==
    /\ pc = "report"
    /\ LET focals_fit == predict_focals(g.n_water)
       IN  IF Printable(focals_fit)
           THEN /\ out' = Append(out, [ text     |-> "Best-fit water index:",
                                        x        |-> fit.x,
                                        focals   |-> focals_fit,
                                        measured |-> f_measured ])
                /\ pc' = "done"
           ELSE /\ pc' = "raised"
                /\ out' = out
    /\ UNCHANGED <<g, f_measured, call, ret, memo, fit>>

\* Single evaluation (lines 120-123)
MainPredict ==
    /\ pc = "start"
    /\ LET focals == predict_focals(g.n_water)
       IN  IF Printable(focals)
           THEN /\ out' = Append(out, [ text    |-> "Predicted focal lengths",
                                        n_water |-> g.n_water,
                                        focals  |-> focals ])
                /\ pc' = "minimize"
           ELSE /\ pc' = "raised"
                /\ out' = out
    /\ UNCHANGED <<g, f_measured, call, ret, memo, fit>>

\* minimize_scalar evaluates error_function at a point of the interval and
\* keeps the first point of least cost as its best estimate; an exception
\* raised by error_function ends the script
MinimizeEval(x) ==
    /\ pc = "minimize"
    /\ Len(fit.evals) < MaxIter
    /\ LET fx == error_function(x)
       IN  IF IsExc(fx)
           THEN /\ pc' = "raised"
                /\ fit' = fit
           ELSE /\ pc' = pc
                /\ fit' = [fit EXCEPT
                             !.evals = Append(@, x),
                             !.best  = IF fit.evals = <<>> \/ Lt(fx, @[2])
                                       THEN <<x, fx>> ELSE @]
    /\ UNCHANGED <<g, f_measured, call, ret, memo, out>>

\* minimize_scalar returns, on convergence or at its maximum iteration
\* count, its best estimate found so far
MinimizeReturn ==
    /\ pc = "minimize"
    /\ Len(fit.evals) >= 1
    /\ fit' = [fit EXCEPT !.x = fit.best[1]]
    /\ pc' = "report"
    /\ UNCHANGED <<g, f_measured, call, ret, memo, out>>

\* the report of the fit (lines 127-130)
MainReport ==
    /\ pc = "report"
    /\ LET focals_fit == predict_focals(fit.x)
       IN  IF Printable(focals_fit)
           THEN /\ out' = Append(out, [ text     |-> "Best-fit water index:",
                                        x        |-> fit.x,
                                        focals   |-> focals_fit,
                                        measured |-> f_measured ])
                /\ pc' = "done"
           ELSE /\ pc' = "raised"
                /\ out' = out
    /\ UNCHANGED <<g, f_measured, call, ret, memo, fit>>

NextMain ==
    \/ MainPredict
    \/ \E x \in SearchPoints : MinimizeEval(x)
    \/ MinimizeReturn
    \/ MainReport

\* the script is the only thread: it takes its next step whenever it has one
SpecMain == Init /\ [][NextMain]_vars /\ WF_vars(NextMain)

---------------------------------------------------------------------------
(* Every call of every function, and the script *)

Next == NextRefract \/ NextTrace \/ NextSystems \/ NextMain

Spec == Init /\ [][Next]_vars

---------------------------------------------------------------------------
(* Properties of refract *)

RefractCall == call.fn = "refract"
arg_n1 == call.args[1]
arg_n2 == call.args[2]
arg_R  == call.args[3]
arg_s  == call.args[4]

\* finite indices, a finite nonzero radius and a finite object distance
CurvedFiniteCall ==
    /\ RefractCall
    /\ IsFinite(arg_n1) /\ IsFinite(arg_n2)
    /\ IsFinite(arg_R) /\ ~IsZero(arg_R)
    /\ IsFinite(arg_s)

\* the object is neither at the vertex nor at the front focal point
\* s = n1*R/(n2 - n1), where no finite image distance exists
OffFocalPoint ==
    /\ ~IsZero(arg_s)
    /\ ~Eq(Mul(arg_s, Sub(arg_n2, arg_n1)), Mul(arg_n1, arg_R))

\* C1 as stated: for finite n1, n2, s and finite nonzero R the returned s'
\* satisfies n2/s' - n1/s = (n2 - n1)/R.
C1_SolvesMinusEquation ==
    CurvedFiniteCall =>
        /\ IsFinite(ret) /\ ~IsZero(ret)
        /\ Eq(Sub(Div(arg_n2, ret), Div(arg_n1, arg_s)),
              Div(Sub(arg_n2, arg_n1), arg_R))

\* C1 amended: for finite n1, n2, finite nonzero R and finite nonzero s off
\* the front focal point, refract returns a finite nonzero s' that satisfies
\* n2/s' + n1/s = (n2 - n1)/R.
C1_SolvesPlusEquation ==
    CurvedFiniteCall /\ OffFocalPoint =>
        /\ IsFinite(ret) /\ ~IsZero(ret)
        /\ Eq(Add(Div(arg_n2, ret), Div(arg_n1, arg_s)),
              Div(Sub(arg_n2, arg_n1), arg_R))

C1_Witness ==
    /\ CurvedFiniteCall /\ OffFocalPoint
    /\ ~Eq(arg_n1, arg_n2)
    /\ IsFinite(ret)
    /\ ~Eq(ret, Neg(arg_s))

\* the denominator of the general formula of line 41
Denominator ==
    Sub(Div(Sub(arg_n2, arg_n1), Mul(arg_n2, arg_R)),
        Div(arg_n1, Mul(arg_n2, arg_s)))

\* C2: when the denominator of the curved-surface general formula is exactly
\* zero, refract does not raise but returns a signed infinity.
C2_ZeroPowerGivesInfinity ==
    (/\ RefractCall
     /\ IsFinite(arg_R) /\ ~IsZero(arg_R)
     /\ IsFinite(arg_s)
     /\ IsZero(Denominator)) => isinf(ret)

---------------------------------------------------------------------------
(* Properties of trace_system *)

TraceCall == call.fn = "trace_system"
arg_surfaces == call.args[1]

\* the object distance s_i before surface i and the image distance s'_i
\* after it: s_1 = infinity, s'_i = refract(n1_i, n2_i, R_i, s_i),
\* s_{i+1} = t_i - s'_i
RECURSIVE ObjectDistance(_, _)
RECURSIVE ImageDistance(_, _)
ObjectDistance(S, i) ==
    IF i = 1 THEN inf ELSE Sub(S[i - 1].t, ImageDistance(S, i - 1))
ImageDistance(S, i) ==
    refract(S[i].n1, S[i].n2, S[i].R, ObjectDistance(S, i))

WithLastT(S, t) == [S EXCEPT ![Len(S)].t = t]

\* C3: for k >= 1 surfaces trace_system returns s'_k of the recurrence; the
\* last surface's t does not affect the result; for k = 1 the result is
\* refract(n1, n2, R, infinity) of the one surface.
C3_TraceIsRecurrence ==
    (TraceCall /\ Len(arg_surfaces) >= 1) =>
        LET S == arg_surfaces
            k == Len(arg_surfaces)
        IN  /\ ret = ImageDistance(S, k)
            /\ \A t \in {Zero, Lit(7, 1), Inf(1, FALSE)} :
                  ret = trace_system(WithLastT(S, t))
            /\ k = 1 => ret = refract(S[1].n1, S[1].n2, S[1].R, inf)

C3_Witness ==
    /\ TraceCall
    /\ Len(arg_surfaces) = 3
    /\ arg_surfaces[3].t # Zero
    /\ arg_surfaces[1].t # arg_surfaces[2].t
    /\ IsFinite(ret) /\ ~IsZero(ret)

\* C10: trace_system of zero surfaces returns None without raising, and
\* that is the only input for which it returns None.
C10_NoneOnlyForEmpty ==
    TraceCall => (ret = None <=> arg_surfaces = <<>>)

C10_Witness ==
    /\ TraceCall
    /\ arg_surfaces = <<>>
    /\ ret = None

---------------------------------------------------------------------------
(* Properties of build_systems, predict_focals and error_function *)

arg_n_water == call.args[1]

\* the media along the light path of a system: before the first surface,
\* then after each surface
Media(S) == <<S[1].n1>> \o [i \in 1..Len(S) |-> S[i].n2]

\* the medium of the first and of the second cavity in each configuration
Cavities(name, n_water) ==
    CASE name = "empty"       -> <<g.n_air, g.n_air>>
      [] name = "one_filled"  -> <<g.n_air, n_water>>
      [] name = "both_filled" -> <<n_water, n_water>>

\* C6: build_systems returns three systems of six surfaces with the same R
\* and t at each position (radii positive on the entry side, flat at the
\* partition, negative on the exit side) whose media are air, container,
\* cavity 1, container, cavity 2, container, air with the cavities (air,
\* air), (air, liquid), (liquid, liquid); each n2 is the next n1; in
\* both_filled only the first and last surfaces touch air (for a liquid
\* whose index is not that of air).
C6_SystemsStructure ==
    call.fn = "build_systems" =>
        /\ DOMAIN ret = NameSet
        /\ \A name \in NameSet :
            LET S == ret[name]
                c == Cavities(name, arg_n_water)
            IN  /\ Len(S) = 6
                /\ [i \in 1..6 |-> S[i].R] =
                      << g.R_outer, g.R_inner, inf, inf,
                         Neg(g.R_inner), Neg(g.R_outer) >>
                /\ \A i \in 1..6 : /\ S[i].R = ret["empty"][i].R
                                  /\ S[i].t = ret["empty"][i].t
                /\ \A i \in {1, 2} : IsFinite(S[i].R) /\ S[i].R.sign = 1
                /\ \A i \in {5, 6} : IsFinite(S[i].R) /\ S[i].R.sign = -1
                /\ Media(S) = << g.n_air, g.n_plexi, c[1], g.n_plexi, c[2],
                                 g.n_plexi, g.n_air >>
                /\ \A i \in 1..5 : S[i].n2 = S[i + 1].n1
        /\ ~Eq(arg_n_water, g.n_air) =>
              { i \in 1..6 : \/ Eq(ret["both_filled"][i].n1, g.n_air)
                             \/ Eq(ret["both_filled"][i].n2, g.n_air) } = {1, 6}

C6_Witness ==
    /\ call.fn = "build_systems"
    /\ ~Eq(arg_n_water, g.n_air)
    /\ ~Eq(arg_n_water, g.n_plexi)
    /\ ret["one_filled"][4].n2 = arg_n_water
    /\ ret["both_filled"][2].n2 = arg_n_water

\* C7: every system returned by build_systems has at least one surface and
\* the t of its final surface is 0.
C7_LastThicknessZero ==
    call.fn = "build_systems" =>
        \A name \in DOMAIN ret :
            /\ Len(ret[name]) >= 1
            /\ Eq(ret[name][Len(ret[name])].t, Zero)

C7_Witness ==
    /\ call.fn = "build_systems"
    /\ DOMAIN ret = NameSet
    /\ \A name \in NameSet : ~Eq(ret[name][Len(ret[name]) - 1].t, Zero)

RelErrSq(predicted, measured) ==
    Sq(Div(Sub(Abs(predicted), Abs(measured)), measured))

RECURSIVE SumRelErrSq(_, _)
SumRelErrSq(focals, keys) ==
    IF keys = {} THEN Zero
    ELSE LET key == CHOOSE x \in keys : TRUE
         IN  Add(SumRelErrSq(focals, keys \ {key}),
                 RelErrSq(focals[key], f_measured[key]))

IsNonNegative(v) == v.k \in {"num", "inf"} /\ (v.sign = 1 \/ IsZero(v))

\* C5: error_function returns a non-negative number equal to the sum over
\* the measured map of ((|predicted| - |measured|) / measured)^2 with
\* predicted from predict_focals, and the same number when every predicted
\* focal length changes sign.
C5_SumOfSquaredRelativeErrors ==
    call.fn = "error_function" =>
        LET focals == predict_focals(arg_n_water)
        IN  /\ IsNonNegative(ret)
            /\ Eq(ret, SumRelErrSq(focals, DOMAIN f_measured))
            /\ Eq(ret, SumRelErrSq([name \in NameSet |-> Neg(focals[name])],
                                   DOMAIN f_measured))

\* a model focal length of the sign opposite to its measured value
C5_Witness ==
    /\ call.fn = "error_function"
    /\ IsFinite(ret) /\ ~IsZero(ret)
    /\ \E name \in NameSet :
          predict_focals(arg_n_water)[name].sign # f_measured[name].sign

---------------------------------------------------------------------------
(* Properties of the script *)

ReportPrinted ==
    /\ Len(out) = 2
    /\ out[2].x = fit.x
    /\ out[2].focals = predict_focals(fit.x)
    /\ out[2].measured = Measured

\* C9: the script always terminates: the minimisation ends after at most
\* MaxIter evaluations of error_function, none of which raises, it returns
\* an index inside [1.0, 1.6], and the script then prints that index with
\* the focal map predicted for it and the measured values.
C9_FitTerminatesAndReports ==
    /\ <>(pc = "done")
    /\ [](pc # "raised")
    /\ [](Len(fit.evals) <= MaxIter)
    /\ [](pc \in {"report", "done"} => InInterval(fit.x))
    /\ [](pc = "done" => ReportPrinted)

\* the minimiser returned a point other than the first it tried, and the
\* report is out
C9_Witness ==
    /\ pc = "done"
    /\ Len(fit.evals) >= 2
    /\ fit.x # fit.evals[1]
    /\ fit.x # g.n_water
    /\ ReportPrinted

=============================================================================
